---- MODULE Spec2Model ----
(***************************************************************************)
(* Quote reminders and quote status of the BLS quotation system.           *)
(*                                                                         *)
(* The store is the "cotizaciones" collection: one document per quote,     *)
(* written field-wise by updateDoc.  The web process runs                  *)
(* QuoteTrackingService (scheduleReminder, deleteReminder, updateStatus,   *)
(* behind the in-process read cache) and the quotes PUT endpoint; the      *)
(* poller runs ReminderAutomationService.processReminders from a repeating *)
(* timer that does not wait for the previous execution, so two executions  *)
(* may be in flight.  Every await of processReminders is a step.           *)
(***************************************************************************)
EXTENDS Integers, Sequences, FiniteSets, TLC

\* ------------------------------------------------------------------ bounds
\* The clock takes the values 0..MaxTime.
MaxTime == 1
\* scheduleReminder is called at most MaxInst times (reminder instances).
MaxInst == 2
\* The timer fires processReminders at most MaxRuns times.
MaxRuns == 2

\* ------------------------------------------------------------- value sets
Quotes == {"q1", "q2"}
\* snapshot.docs: the order in which a scan visits the quotes
QuoteOrder == <<"q1", "q2">>
\* the executions of processReminders that may be in flight
Ticks == 1..MaxRuns

Null == "null"
\* a stored boolean-or-null
Truthy(v) == v = "true"
BoolStr(b) == IF b THEN "true" ELSE "false"

\* the documents of "usuarios", ordered by nombre: email, activo and
\* notificacionesEmail ("true", "false", or Null for a missing field)
UserLists ==
  { << [email |-> "", activo |-> "true", notificacionesEmail |-> "true"],
       [email |-> "v", activo |-> "true", notificacionesEmail |-> "false"] >>,
    << [email |-> "u", activo |-> Null, notificacionesEmail |-> Null],
       [email |-> "w", activo |-> "false", notificacionesEmail |-> "true"] >> }
\* the hardcoded fallback address
OperatorAddress == "russofg@gmail.com"

\* (tipo, mensaje, sendPush, userName, recipients) of a schedule request
Payloads ==
  { [ tipo |-> "seguimiento", mensaje |-> "m1", sendPush |-> TRUE,
      userName |-> "Usuario", recipients |-> <<>> ],
    [ tipo |-> "vencimiento", mensaje |-> "m2", sendPush |-> FALSE,
      userName |-> "Ana", recipients |-> <<"a", "b">> ] }

\* the arguments of scheduleReminder(quoteId, tipo, fecha, mensaje, sendEmail,
\* sendPush, userName, userEmail, recipients)
ReminderInputs ==
  { [fecha |-> f, tipo |-> p.tipo, mensaje |-> p.mensaje, sendEmail |-> e,
     sendPush |-> p.sendPush, userName |-> p.userName,
     recipients |-> p.recipients] :
      f \in 1..(MaxTime + 1), p \in Payloads, e \in BOOLEAN }

\* what RealEmailService.sendReminderEmail does for one recipient
SendOutcomes == {"ok", "false", "throws"}

\* ------------------------------------------------------------------ state
VARIABLES
  now,        \* the clock (new Date())
  quotes,     \* the stored documents of "cotizaciones"
  usuarios,   \* the stored documents of "usuarios"
  cache,      \* SimpleCache entries "quote-tracking-<id>"
  cacheAll,   \* SimpleCache entry "quotes-tracking-all"
  cacheStats, \* SimpleCache entry "tracking-stats"
  inflight,   \* a tracking read between its store read and its cache.set
  tick,       \* the executions of processReminders
  started,    \* history: the clock at each firing of the timer, in order
  scheduled,  \* history: the reminders scheduled so far, in order
  log,        \* history: every send attempted
  cleared,    \* history: every clearing write that succeeded
  lastOp,     \* the last status or poller-control operation and its result
  isRunning,  \* ReminderAutomationService.isRunning
  intervalId, \* ReminderAutomationService.intervalId (0 = null)
  timers,     \* the interval timers that are set (their handles)
  clientes,   \* the stored documents of "clientes"
  items,      \* the stored documents of "items"
  categorias, \* the ids of the stored documents of "categorias"
  configuracion, \* the stored documents of "configuracion", by clave
  eliminadas, \* the quotes whose document was deleted from "cotizaciones"
  ecache,     \* SimpleCache entries of the client and item services
  totals,     \* the last call of QuoteHelper.calculateTotals and its result
  duration,   \* the last call of DateHelper.calculateDurationInDays
  numero,     \* the last call of QuoteHelper.generateQuoteNumber
  updating,   \* the updateStatus calls between their read and their write
  reading     \* the ClienteService.getById call between its getDoc and cache.set

\* the variables of the quote tracking and reminder services
trackingVars == <<now, quotes, usuarios, cache, cacheAll, cacheStats, inflight,
                  tick, started, scheduled, log, cleared>>
\* the variables of the poller's start() and stop()
pollerVars == <<isRunning, intervalId, timers>>
\* the variables of the entity services
crudVars == <<clientes, items, categorias, configuracion, eliminadas, ecache>>

\* the variables of the pure helpers
helperVars == <<totals, duration, numero>>
\* the variables of the calls that are under way
flightVars == <<updating, reading>>

vars == <<trackingVars, lastOp, pollerVars, crudVars, helperVars, flightVars>>

\* A quote document.  proximoSeguimiento = 0 stands for null (a stored
\* Timestamp is always truthy); inst names the scheduled reminder the
\* fields belong to (history, 0 = none).
NewQuote ==
  [ estado |-> "borrador",
    historialCambios |-> <<>>,
    proximoSeguimiento |-> 0,
    proximoSeguimientoTipo |-> Null,
    proximoSeguimientoMensaje |-> Null,
    proximoSeguimientoUsuario |-> Null,
    proximoSeguimientoEmail |-> Null,
    proximoSeguimientoPush |-> Null,
    proximoSeguimientoDestinatarios |-> <<>>,
    inst |-> 0 ]

NoEntry == [present |-> FALSE, estado |-> Null, historialCambios |-> <<>>]
\* no cached list: the list entry keeps the estado of every quote
NoList == [present |-> FALSE, estados |-> [q \in Quotes |-> Null]]
\* no cached statistics: the entry keeps the count of quotes per estado
NoStats == [present |-> FALSE, porEstado |-> <<>>]
\* no tracking read in flight
NoRead == [kind |-> "none", q |-> Null, doc |-> NoEntry,
           estados |-> [q \in Quotes |-> Null]]

\* An execution of processReminders: work is what the loop keeps of the
\* snapshot (the documents that pass both ifs, in scan order), idx the
\* document it is at, rem the destinatarios it has not sent to yet.  A
\* dests is history: the destinatarios resolved for each document so far.  A
\* finished execution stays visible (pc = "done") until its slot is reused.
IdleTick ==
  [ pc |-> "idle", run |-> 0, listed |-> FALSE, tnow |-> 0, work |-> <<>>,
    skipped |-> {}, idx |-> 0, dests |-> <<>>, rem |-> <<>>,
    enviados |-> 0, fallidos |-> 0 ]

\* ---------------------------------------------------------- entity stores
\* The document ids addDoc can hand out, in the order it hands them out.
ClientIds == {"c1", "c2"}
ClientOrder == <<"c1", "c2">>
ItemIds == {"i1", "i2"}
ItemOrder == <<"i1", "i2">>
CategoriaIds == {"k1", "k2"}
Claves == {"iva"}
\* e-mail addresses and item codes as callers type them
Emails == {"ana@x.com", "Ana@x.com"}
Codigos == {"SKU1", "sku1"}
\* String.prototype.toLowerCase and toUpperCase on those
ToLowerCase(e) == IF e = "Ana@x.com" THEN "ana@x.com" ELSE e
ToUpperCase(c) == IF c = "sku1" THEN "SKU1" ELSE c
\* clienteId of each quote document, categoriaId of each item document
ClienteIdDe == [q \in Quotes |-> "c1"]
CategoriaIdDe == [i \in ItemIds |-> "k1"]

\* A slot of a collection: st is "none" before addDoc handed the id out,
\* "stored" while the document exists, "removed" after deleteDoc.
NoCliente == [st |-> "none", email |-> Null, activo |-> FALSE]
NoItem == [st |-> "none", codigo |-> Null, activo |-> FALSE]
NoConfig == [st |-> "none", valor |-> Null]

InitClientes ==
  [id \in ClientIds |->
     IF id = "c1" THEN [st |-> "stored", email |-> "ana@x.com", activo |-> TRUE]
     ELSE NoCliente]
InitItems ==
  [id \in ItemIds |->
     IF id = "i1" THEN [st |-> "stored", codigo |-> "SKU1", activo |-> TRUE]
     ELSE NoItem]
InitCategorias == CategoriaIds
InitConfiguracion == [k \in Claves |-> NoConfig]

\* The entries of the SimpleCache singleton the client and item services
\* use, by key prefix: "clients" and "items" hold a list, "client" and
\* "item" one document per id.
NoCache ==
  [ clients |-> [present |-> FALSE, docs |-> [id \in ClientIds |-> NoCliente]],
    client  |-> [id \in ClientIds |-> [present |-> FALSE, doc |-> NoCliente]],
    items   |-> [present |-> FALSE, docs |-> [id \in ItemIds |-> NoItem]],
    item    |-> [id \in ItemIds |-> [present |-> FALSE, doc |-> NoItem]] ]

\* ------------------------------------------------------------ QuoteHelper
\* Amounts are counted in thousandths of the currency unit, results of
\* calculateTotals in hundredths.  A field that is 0 is falsy, as a missing
\* one is.
MaxItems == 2
Cantidades == {0, 1, 2}
PreciosUnitarios == {0, 14, 100}
PreciosBase == {0, 1000}
Descuentos == {0, 25, 50}
QuoteItems ==
  [cantidad : Cantidades, precio_unitario : PreciosUnitarios, precioBase : PreciosBase]
ItemLists == UNION { [1..n -> QuoteItems] : n \in 0..MaxItems }

\* item.precio_unitario || item.precioBase || 0
Precio(item) ==
  IF item.precio_unitario # 0 THEN item.precio_unitario ELSE item.precioBase

\* items.reduce((sum, item) => sum + cantidad * precio, 0)
RECURSIVE Reduce(_)
Reduce(its) ==
  IF Len(its) = 0 THEN 0
  ELSE Reduce(SubSeq(its, 1, Len(its) - 1))
         + its[Len(its)].cantidad * Precio(its[Len(its)])

\* Math.round(num / den): the nearest integer, halves upwards
MathRound(num, den) == (2 * num + den) \div (2 * den)

\* calculateTotals(items, descuento): the three amounts are computed
\* unrounded, then each is rounded to hundredths on its own
CalculateTotals(its, descuento) ==
  LET subtotal == Reduce(its)
      descuentoMonto100 == subtotal * descuento
      total100 == subtotal * 100 - descuentoMonto100
  IN [ subtotal |-> MathRound(subtotal, 10),
       descuentoMonto |-> MathRound(descuentoMonto100, 1000),
       total |-> MathRound(total100, 1000) ]

\* no call of calculateTotals yet
NoTotals ==
  [items |-> <<>>, descuento |-> 0,
   result |-> [subtotal |-> 0, descuentoMonto |-> 0, total |-> 0]]

\* ------------------------------------------------------------- DateHelper
\* Times are counted in hours since the epoch, in the local time zone.  An
\* argument is null, undefined, an Invalid Date or a Date.
Horas == {0, 10, 30, 50, 75, 100}
DateArgs ==
  { [kind |-> k, t |-> 0] : k \in {"null", "undefined", "invalid"} }
    \cup { [kind |-> "date", t |-> h] : h \in Horas }

\* new Date(value): null is the epoch, undefined and an Invalid Date give
\* an Invalid Date, whose time value is NaN
NewDate(a) ==
  IF a.kind = "null" THEN [nan |-> FALSE, t |-> 0]
  ELSE IF a.kind = "date" THEN [nan |-> FALSE, t |-> a.t]
  ELSE [nan |-> TRUE, t |-> 0]

\* date.setHours(0, 0, 0, 0)
SetHours0(d) == IF d.nan THEN d ELSE [d EXCEPT !.t = @ - (@ % 24)]

\* calculateDurationInDays(startDate, endDate): with a NaN time value
\* diffDays is NaN, NaN > 0 is false and the result is 1; nothing throws
CalculateDurationInDays(startDate, endDate) ==
  LET start == SetHours0(NewDate(startDate))
      end == SetHours0(NewDate(endDate))
  IN IF start.nan \/ end.nan THEN 1
     ELSE LET diffDays == MathRound(end.t - start.t, 24) + 1
          IN IF diffDays > 0 THEN diffDays ELSE 1

\* no call of calculateDurationInDays yet
NoDuration ==
  [start |-> [kind |-> "date", t |-> 0], end |-> [kind |-> "date", t |-> 0],
   result |-> 1]

\* ----------------------------------------------------- generateQuoteNumber
\* A quote number is the sequence of its parts, which '-' joins.
Numeros == {Null, "COT-7", "tmp-mvG2cFN4sBXIfjxxnYAL"}
CreatedAts == {Null, "2024-01-15", "garbage"}
Titulos == {Null, "Evento Test", "Gala"}
Cotizaciones ==
  { [isNull |-> TRUE, numero |-> Null, created_at |-> Null, titulo |-> Null] }
    \cup [isNull : {FALSE}, numero : Numeros, created_at : CreatedAts,
          titulo : Titulos]
Clients == {Null, "", "Cliente Test"}
Hoy == "2026-11-03"

\* new Date(value).toISOString().slice(0, 10).replace(/-/g, ""), which
\* throws a RangeError on an Invalid Date ("throws" here)
FechaFormateada(v) ==
  IF v = "2024-01-15" THEN "20240115"
  ELSE IF v = Hoy THEN "20261103"
  ELSE "throws"

\* name.replace(/\s+/g, "").substring(0, 10).toUpperCase()
NombreCorto(n) ==
  IF n = "Cliente Test" THEN "CLIENTETES"
  ELSE IF n = "Evento Test" THEN "EVENTOTEST"
  ELSE IF n = "Gala" THEN "GALA"
  ELSE n

\* generateQuoteNumber(cotizacion, cliente): cliente is its nombre, Null
\* when there is no cliente.  threw tells whether the catch was entered.
GenerateQuoteNumber(cotizacion, cliente) ==
  LET fecha == FechaFormateada(IF cotizacion.created_at # Null
                                 THEN cotizacion.created_at ELSE Hoy)
      clienteNombre == NombreCorto(IF cliente \in {Null, ""} THEN "CLIENTE"
                                   ELSE cliente)
      eventoNombre == NombreCorto(IF cotizacion.titulo = Null THEN "EVENTO"
                                  ELSE cotizacion.titulo)
  IN IF cotizacion.isNull \/ (cotizacion.numero \notin {Null, "COT-7"}
                               /\ fecha = "throws")
          \/ (cotizacion.numero = Null /\ fecha = "throws")
       THEN [threw |-> TRUE,
             parts |-> <<"COT", "001", FechaFormateada(Hoy), "CLIENTE", "EVENTO">>]
     ELSE IF cotizacion.numero = "COT-7"
       THEN [threw |-> FALSE, parts |-> <<cotizacion.numero>>]
     ELSE [threw |-> FALSE,
           parts |-> <<"COT", "001", fecha, clienteNombre, eventoNombre>>]

\* no call of generateQuoteNumber yet
NoNumero ==
  [cotizacion |-> [isNull |-> FALSE, numero |-> "COT-7", created_at |-> Null,
                   titulo |-> Null],
   cliente |-> Null, threw |-> FALSE, parts |-> <<"COT-7">>]

\* ------------------------------------------------------------ calls under way
Callers == {1, 2}
\* an updateStatus call that is not under way
IdleCall == [pc |-> "idle", q |-> Null, nuevoEstado |-> Null, estadoAnterior |-> Null]
\* no getById of a client under way
NoReading == [pc |-> "idle", id |-> Null, doc |-> NoCliente]

\* lastOp before any status operation, and after any other operation
NoOp == [op |-> "none", q |-> Null, nuevoEstado |-> Null, result |-> Null]

Init ==
  /\ now = 0
  /\ quotes = [q \in Quotes |-> NewQuote]
  /\ usuarios \in UserLists
  /\ cache = [q \in Quotes |-> NoEntry]
  /\ cacheAll = NoList
  /\ cacheStats = NoStats
  /\ inflight = NoRead
  /\ tick = [t \in Ticks |-> IdleTick]
  /\ started = <<>>
  /\ scheduled = <<>>
  /\ log = {}
  /\ cleared = {}
  /\ lastOp = NoOp
  /\ isRunning = FALSE
  /\ intervalId = 0
  /\ timers = {}
  /\ clientes = InitClientes
  /\ items = InitItems
  /\ categorias = InitCategorias
  /\ configuracion = InitConfiguracion
  /\ eliminadas = {}
  /\ ecache = NoCache
  /\ totals = NoTotals
  /\ duration = NoDuration
  /\ numero = NoNumero
  /\ updating = [c \in Callers |-> IdleCall]
  /\ reading = NoReading

\* ------------------------------------------------------------------ clock
Advance ==
  /\ now < MaxTime
  /\ now' = now + 1
  /\ lastOp' = NoOp
  /\ UNCHANGED <<quotes, usuarios, cache, cacheAll, cacheStats, inflight,
               tick, started, scheduled, log, cleared>>
  /\ UNCHANGED <<crudVars, pollerVars, helperVars, flightVars>>

\* ------------------------------------------------------------------ cache
\* mapDocumentToQuoteTracking: the fields of the cached QuoteTracking that
\* the operations below read (estado defaults to borrador)
MapDocumentToQuoteTracking(d) ==
  [ present |-> TRUE,
    estado |-> IF d.estado = Null THEN "borrador" ELSE d.estado,
    historialCambios |-> d.historialCambios ]

\* getByIdWithTracking(id): the cached entry when there is one, otherwise the
\* stored document, which is then cached
GetByIdWithTracking(q) ==
  IF cache[q].present THEN cache[q] ELSE MapDocumentToQuoteTracking(quotes[q])

CacheAfterRead(q) == [cache EXCEPT ![q] = GetByIdWithTracking(q)]

\* invalidateCache(quoteId): invalidateRelatedCache('quote') deletes every key
\* that starts with "quote", which is every "quote-tracking-<id>" entry and
\* "quotes-tracking-all"; "tracking-stats" is deleted by name.  The handlers
\* set cacheAll and cacheStats to NoList and NoStats with it.
InvalidateCache(q) == [k \in Quotes |-> NoEntry]

\* an entry older than its TTL is dropped
CacheExpire(q) ==
  /\ cache[q].present
  /\ cache' = [cache EXCEPT ![q] = NoEntry]
  /\ lastOp' = NoOp
  /\ UNCHANGED <<cacheAll, cacheStats, inflight, now, quotes, usuarios, tick,
               started, scheduled, log, cleared>>
  /\ UNCHANGED <<crudVars, pollerVars, helperVars, flightVars>>

\* ------------------------------------------------- reminder: web handlers
\* io: how the store answers this call
IoOutcomes == {"ok", "readFails", "writeFails"}

\* a scheduleReminder that would leave the stored recipient list alone
ScheduleWriteKeepsDestinatarios(d, inp, i) ==
  [ d EXCEPT
      !.proximoSeguimiento = inp.fecha,
      !.proximoSeguimientoTipo = inp.tipo,
      !.proximoSeguimientoMensaje = inp.mensaje,
      !.proximoSeguimientoUsuario = inp.userName,
      !.proximoSeguimientoEmail = BoolStr(inp.sendEmail),
      !.proximoSeguimientoPush = BoolStr(inp.sendPush),
      !.inst = i ]

\* the updateData of scheduleReminder applied to the document
ScheduleWrite(d, inp, i) ==
  [ d EXCEPT
      !.proximoSeguimiento = inp.fecha,
      !.proximoSeguimientoTipo = inp.tipo,
      !.proximoSeguimientoMensaje = inp.mensaje,
      !.proximoSeguimientoUsuario = inp.userName,
      !.proximoSeguimientoEmail = BoolStr(inp.sendEmail),
      !.proximoSeguimientoPush = BoolStr(inp.sendPush),
      !.proximoSeguimientoDestinatarios = inp.recipients,
      !.inst = i ]

\* scheduleReminder(quoteId, ...): the whole handler
ScheduleReminder(q, inp, io) ==
  /\ Len(scheduled) < MaxInst
  /\ io = "readFails" => ~cache[q].present
  /\ IF io = "ok"
       THEN /\ quotes' = [quotes EXCEPT ![q] = ScheduleWrite(@, inp, Len(scheduled) + 1)]
            /\ cache' = InvalidateCache(q)
            /\ cacheAll' = NoList /\ cacheStats' = NoStats
            /\ scheduled' = Append(scheduled,
                 [q |-> q, inp |-> inp, over |-> quotes[q].inst])
       ELSE /\ cache' = IF io = "readFails" THEN cache ELSE CacheAfterRead(q)
            /\ UNCHANGED <<cacheAll, cacheStats>>
            /\ UNCHANGED <<quotes, scheduled>>
  /\ lastOp' = NoOp
  /\ UNCHANGED <<inflight, now, usuarios, tick, started, log, cleared>>
  /\ UNCHANGED <<crudVars, pollerVars, helperVars, flightVars>>

\* the updateData of deleteReminder applied to the document
DeleteWrite(d) ==
  [ d EXCEPT
      !.proximoSeguimiento = 0,
      !.proximoSeguimientoTipo = Null,
      !.proximoSeguimientoMensaje = Null,
      !.proximoSeguimientoUsuario = Null,
      !.proximoSeguimientoEmail = Null,
      !.proximoSeguimientoPush = Null,
      !.inst = 0 ]

\* deleteReminder(quoteId): the whole handler
DeleteReminder(q, io) ==
  /\ io = "readFails" => ~cache[q].present
  /\ IF io = "ok"
       THEN /\ quotes' = [quotes EXCEPT ![q] = DeleteWrite(@)]
            /\ cache' = InvalidateCache(q)
            /\ cacheAll' = NoList /\ cacheStats' = NoStats
       ELSE /\ cache' = IF io = "readFails" THEN cache ELSE CacheAfterRead(q)
            /\ UNCHANGED <<cacheAll, cacheStats>>
            /\ UNCHANGED quotes
  /\ lastOp' = NoOp
  /\ UNCHANGED <<inflight, now, usuarios, tick, started, scheduled, log, cleared>>
  /\ UNCHANGED <<crudVars, pollerVars, helperVars, flightVars>>

\* ------------------------------------------------------ reminder: poller
\* a filter that would pass over a reminder some execution tried before
IsDueNeverTried(d, t) ==
  /\ d.proximoSeguimiento # 0
  /\ Truthy(d.proximoSeguimientoEmail)
  /\ d.proximoSeguimiento <= t
  /\ ~\E e \in log : e.inst = d.inst

\* data.proximoSeguimiento && data.proximoSeguimientoEmail, and
\* reminderDate <= now
IsDue(d, t) ==
  /\ d.proximoSeguimiento # 0
  /\ Truthy(d.proximoSeguimientoEmail)
  /\ d.proximoSeguimiento <= t

\* getActiveUsers(): the documents whose activo is not false; [] when the
\* read of "usuarios" throws
GetActiveUsers(readOk) ==
  IF readOk THEN SelectSeq(usuarios, LAMBDA u : u.activo # "false") ELSE <<>>

\* getEmailNotificationUsers(): the active users with notificacionesEmail not
\* false and a non-blank email
GetEmailNotificationUsers(readOk) ==
  SelectSeq(GetActiveUsers(readOk),
            LAMBDA u : u.notificacionesEmail # "false" /\ u.email # "")

\* the destinatarios of one due reminder: its own list when non-empty, else
\* the emails of usuariosNotificacion, else the hardcoded address
ResolveDestinatarios(dest, usuariosNotificacion) ==
  IF Len(dest) > 0 THEN dest
  ELSE IF Len(usuariosNotificacion) > 0
         THEN [j \in 1..Len(usuariosNotificacion) |-> usuariosNotificacion[j].email]
         ELSE <<OperatorAddress>>

\* a clearing write that would leave the reminder fields as they are
ClearWriteKeepsReminder(d) == d
\* the updateDoc that clears a dispatched reminder, applied to the document
ClearWrite(d) ==
  [ d EXCEPT
      !.proximoSeguimiento = 0,
      !.proximoSeguimientoTipo = Null,
      !.proximoSeguimientoMensaje = Null,
      !.proximoSeguimientoEmail = "false",
      !.proximoSeguimientoPush = "false",
      !.proximoSeguimientoUsuario = Null,
      !.inst = 0 ]

\* history: the reminders of the snapshot that the for loop passes over
SkippedDocs(snap, t) ==
  { snap[q].inst : q \in { k \in Quotes : snap[k].inst # 0 /\ ~IsDue(snap[k], t) } }

\* the documents of the snapshot, from index i on, that the for loop acts on
RECURSIVE DueDocs(_, _, _)
DueDocs(snap, t, i) ==
  IF i > Len(QuoteOrder) THEN <<>>
  ELSE LET q == QuoteOrder[i]
           d == snap[q]
       IN (IF IsDue(d, t)
             THEN << [ q |-> q, inst |-> d.inst,
                       destinatarios |-> d.proximoSeguimientoDestinatarios ] >>
             ELSE <<>>) \o DueDocs(snap, t, i + 1)

\* execution tk goes on with its document number i: it ends, or it resolves
\* the destinatarios of that document (usersOk: the read of "usuarios"
\* answers) and starts sending
Continue(tk, i, usersOk) ==
  IF i > Len(tk.work)
    THEN [ tk EXCEPT !.pc = "done", !.idx = i, !.rem = <<>>,
                     !.enviados = 0, !.fallidos = 0 ]
    ELSE LET destinatarios ==
               ResolveDestinatarios(tk.work[i].destinatarios,
                                    GetEmailNotificationUsers(usersOk))
         IN [ tk EXCEPT !.pc = "send", !.idx = i,
                !.dests = Append(@, destinatarios), !.rem = destinatarios,
                !.enviados = 0, !.fallidos = 0 ]

\* a processReminders that would not run while an execution is under way
FreeWhenNoneUnderWay(t) == \A u \in Ticks : tick[u].pc \in {"idle", "done"}
\* slot t holds no execution under way; processReminders itself looks at
\* no other execution
Free(t) == tick[t].pc \in {"idle", "done"}

\* the timer fires: getDocs answers (or throws, and the execution ends in
\* the outer catch)
ProcessReminders(t, readOk, usersOk) ==
  /\ Len(started) < MaxRuns
  /\ Free(t)
  /\ \A u \in Ticks : u < t => ~Free(u)
  /\ started' = Append(started, now)
  /\ tick' = [tick EXCEPT ![t] =
       IF readOk
         THEN Continue([ IdleTick EXCEPT !.run = Len(started) + 1, !.listed = TRUE,
                           !.tnow = now, !.work = DueDocs(quotes, now, 1),
                           !.skipped = SkippedDocs(quotes, now) ], 1, usersOk)
         ELSE [IdleTick EXCEPT !.pc = "done", !.run = Len(started) + 1, !.tnow = now]]

\* the interval timer fires: the callback of setInterval calls
\* processReminders, whatever the executions still under way
ProcessRemindersStart(t, readOk, usersOk) ==
  /\ timers # {}
  /\ ProcessReminders(t, readOk, usersOk)
  /\ lastOp' = NoOp
  /\ UNCHANGED <<now, quotes, usuarios, cache, cacheAll, cacheStats, inflight,
               scheduled, log, cleared>>
  /\ UNCHANGED <<crudVars, pollerVars, helperVars, flightVars>>

\* the handles setInterval can return
Handles == {1, 2}
\* a start() that would not look at isRunning
AlreadyRunningIgnored == FALSE
\* the guard of start(): the service is already running
AlreadyRunning == isRunning

\* start(): returns at once when the service runs; otherwise calls
\* processReminders (unawaited, its first step is taken here), sets the
\* interval timer and then isRunning
Start(t, readOk, usersOk) ==
  IF AlreadyRunning
    THEN /\ lastOp' = [NoOp EXCEPT !.op = "start", !.result = "already"]
         /\ UNCHANGED <<trackingVars, pollerVars, crudVars, helperVars, flightVars>>
    ELSE /\ ProcessReminders(t, readOk, usersOk)
         /\ \E h \in Handles \ timers :
              /\ \A g \in Handles \ timers : h <= g
              /\ intervalId' = h
              /\ timers' = timers \cup {h}
         /\ isRunning' = TRUE
         /\ lastOp' = [NoOp EXCEPT !.op = "start", !.result = "started"]
         /\ UNCHANGED <<now, quotes, usuarios, cache, cacheAll, cacheStats,
                        inflight, scheduled, log, cleared>>
         /\ UNCHANGED <<crudVars, helperVars, flightVars>>

\* stop(): returns at once when the service does not run; otherwise clears
\* the interval timer of intervalId and resets isRunning.  The executions
\* of processReminders under way go on.
Stop ==
  IF ~isRunning
    THEN /\ lastOp' = [NoOp EXCEPT !.op = "stop", !.result = "notRunning"]
         /\ UNCHANGED <<trackingVars, pollerVars, crudVars, helperVars, flightVars>>
    ELSE /\ timers' = IF intervalId # 0 THEN timers \ {intervalId} ELSE timers
         /\ intervalId' = 0
         /\ isRunning' = FALSE
         /\ lastOp' = [NoOp EXCEPT !.op = "stop", !.result = "stopped"]
         /\ UNCHANGED <<trackingVars, crudVars, helperVars, flightVars>>

\* the counters after one sendReminderEmail came back
AfterSend(tk, outcome) ==
  [ tk EXCEPT
      !.rem = Tail(@),
      !.enviados = IF outcome = "ok" THEN @ + 1 ELSE @,
      !.fallidos = IF outcome = "ok" THEN @ ELSE @ + 1 ]

\* a loop that would clear the reminder whatever emailsEnviados is
AfterLoopAlwaysClears(tk, usersOk) ==
  IF Len(tk.rem) > 0 THEN tk
  ELSE [tk EXCEPT !.pc = "clear"]

\* a loop that would leave the document at its first failed send
AfterLoopStopsOnFailure(tk, usersOk) ==
  IF Len(tk.rem) > 0 /\ tk.fallidos = 0 THEN tk
  ELSE IF tk.enviados > 0 THEN [tk EXCEPT !.pc = "clear"]
  ELSE Continue(tk, tk.idx + 1, usersOk)

\* where the execution goes after a send: the next destinatario, the
\* clearing write when emailsEnviados > 0, or the next document
AfterLoop(tk, usersOk) ==
  IF Len(tk.rem) > 0 THEN tk
  ELSE IF tk.enviados > 0 THEN [tk EXCEPT !.pc = "clear"]
  ELSE Continue(tk, tk.idx + 1, usersOk)

\* one sendReminderEmail of the inner loop comes back
ProcessRemindersSend(t, outcome, usersOk) ==
  LET tk == tick[t]
      w == tk.work[tk.idx]
  IN
  /\ tk.pc = "send"
  /\ log' = log \cup { [ run |-> tk.run, q |-> w.q, inst |-> w.inst,
                         to |-> Head(tk.rem), ok |-> outcome = "ok" ] }
  /\ tick' = [tick EXCEPT ![t] = AfterLoop(AfterSend(tk, outcome), usersOk)]
  /\ lastOp' = NoOp
  /\ UNCHANGED <<now, quotes, usuarios, cache, cacheAll, cacheStats, inflight,
               started, scheduled, cleared>>
  /\ UNCHANGED <<crudVars, pollerVars, helperVars, flightVars>>

\* emailsEnviados > 0: the clearing updateDoc answers (or throws into the
\* inner catch); the loop goes on with the next document
ProcessRemindersClear(t, writeOk, usersOk) ==
  LET tk == tick[t]
      w == tk.work[tk.idx]
  IN
  /\ tk.pc = "clear"
  /\ IF writeOk
       THEN /\ quotes' = [quotes EXCEPT ![w.q] = ClearWrite(@)]
            /\ cleared' = cleared \cup
                 { [run |-> tk.run, q |-> w.q, inst |-> w.inst] }
       ELSE UNCHANGED <<quotes, cleared>>
  /\ tick' = [tick EXCEPT ![t] = Continue(tk, tk.idx + 1, usersOk)]
  /\ lastOp' = NoOp
  /\ UNCHANGED <<now, usuarios, cache, cacheAll, cacheStats, inflight,
               started, scheduled, log>>
  /\ UNCHANGED <<crudVars, pollerVars, helperVars, flightVars>>

\* ------------------------------------------------------------ status
QuoteStatus ==
  {"borrador", "enviada", "revisada", "aprobada", "rechazada", "vencida", "convertida"}

\* transicionesValidas[estadoActual]
TransicionesValidas(e) ==
  CASE e = "borrador" -> {"enviada", "rechazada"}
    [] e = "enviada" -> {"revisada", "rechazada", "vencida"}
    [] e = "revisada" -> {"aprobada", "rechazada", "vencida"}
    [] e = "aprobada" -> {"convertida"}
    [] e = "rechazada" -> {"borrador"}
    [] e = "vencida" -> {"borrador"}
    [] e = "convertida" -> {}
    [] OTHER -> {}

IsValidStatusTransition(estadoActual, nuevoEstado) ==
  nuevoEstado \in TransicionesValidas(estadoActual)

\* the updateData of updateStatus applied to the document: estado (and the
\* milestone dates, not modelled); historialActualizado is computed by the
\* handler but is not part of updateData
StatusWrite(d, nuevoEstado) == [d EXCEPT !.estado = nuevoEstado]

\* updateStatus(id, nuevoEstado): the whole handler
UpdateStatus(q, nuevoEstado, io) ==
  LET cotizacionActual == GetByIdWithTracking(q)
      valid == IsValidStatusTransition(cotizacionActual.estado, nuevoEstado)
      result == IF io = "readFails" THEN "error"
                ELSE IF ~valid THEN "invalid"
                ELSE IF io = "writeFails" THEN "error" ELSE "ok"
  IN
  /\ io = "readFails" => ~cache[q].present
  /\ IF result = "ok"
       THEN /\ quotes' = [quotes EXCEPT ![q] = StatusWrite(@, nuevoEstado)]
            /\ cache' = InvalidateCache(q)
            /\ cacheAll' = NoList /\ cacheStats' = NoStats
       ELSE /\ quotes' = quotes
            /\ cache' = IF io = "readFails" THEN cache ELSE CacheAfterRead(q)
            /\ UNCHANGED <<cacheAll, cacheStats>>
  /\ lastOp' = [ op |-> "updateStatus", q |-> q, nuevoEstado |-> nuevoEstado,
                 result |-> result ]
  /\ UNCHANGED <<inflight, now, usuarios, tick, started, scheduled, log, cleared>>
  /\ UNCHANGED <<crudVars, pollerVars, helperVars, flightVars>>

\* updateStatus(id, nuevoEstado) of caller c up to its updateDoc: the read
\* through getByIdWithTracking and the validation against the table
UpdateStatusRead(c, q, nuevoEstado, io) ==
  LET cotizacionActual == GetByIdWithTracking(q)
      valid == IsValidStatusTransition(cotizacionActual.estado, nuevoEstado)
  IN
  /\ updating[c].pc = "idle"
  /\ io = "readFails" => ~cache[q].present
  /\ cache' = IF io = "readFails" THEN cache ELSE CacheAfterRead(q)
  /\ IF io # "readFails" /\ valid
       THEN /\ updating' = [updating EXCEPT ![c] =
                 [ pc |-> "write", q |-> q, nuevoEstado |-> nuevoEstado,
                   estadoAnterior |-> cotizacionActual.estado ]]
            /\ lastOp' = NoOp
       ELSE /\ updating' = updating
            /\ lastOp' = [ op |-> "updateStatus", q |-> q,
                           nuevoEstado |-> nuevoEstado,
                           result |-> IF io = "readFails" THEN "error"
                                      ELSE "invalid" ]
  /\ UNCHANGED <<quotes, cacheAll, cacheStats, reading>>
  /\ UNCHANGED <<inflight, now, usuarios, tick, started, scheduled, log, cleared>>
  /\ UNCHANGED <<crudVars, pollerVars, helperVars>>

\* the rest of that updateStatus call: updateDoc, then invalidateCache
UpdateStatusWrite(c, io) ==
  LET q == updating[c].q
      nuevoEstado == updating[c].nuevoEstado
  IN
  /\ updating[c].pc = "write"
  /\ IF io = "ok"
       THEN /\ quotes' = [quotes EXCEPT ![q] = StatusWrite(@, nuevoEstado)]
            /\ cache' = InvalidateCache(q)
            /\ cacheAll' = NoList /\ cacheStats' = NoStats
       ELSE UNCHANGED <<quotes, cache, cacheAll, cacheStats>>
  /\ updating' = [updating EXCEPT ![c] = IdleCall]
  /\ lastOp' = [ op |-> "updateStatus", q |-> q, nuevoEstado |-> nuevoEstado,
                 result |-> IF io = "ok" THEN "ok" ELSE "error" ]
  /\ UNCHANGED reading
  /\ UNCHANGED <<inflight, now, usuarios, tick, started, scheduled, log, cleared>>
  /\ UNCHANGED <<crudVars, pollerVars, helperVars>>

\* GET ?action=quote: getByIdWithTracking from the tracking endpoint
TrackingGet(q, io) ==
  /\ io # "writeFails"
  /\ io = "readFails" => ~cache[q].present
  /\ cache' = IF io = "ok" THEN CacheAfterRead(q) ELSE cache
  /\ lastOp' = [ op |-> "get", q |-> q, nuevoEstado |-> Null,
                 result |-> IF io = "ok" THEN "ok" ELSE "error" ]
  /\ UNCHANGED <<cacheAll, cacheStats, inflight, now, quotes, usuarios, tick,
               started, scheduled, log, cleared>>
  /\ UNCHANGED <<crudVars, pollerVars, helperVars, flightVars>>

\* PUT /api/quotes: cotizacionService.update with estado: quoteData.estado ||
\* 'borrador'; no transition check and no cache invalidation
Put(q, estado, io) ==
  /\ io # "readFails"
  /\ quotes' = IF io = "ok" THEN [quotes EXCEPT ![q].estado = estado] ELSE quotes
  /\ lastOp' = [ op |-> "put", q |-> q, nuevoEstado |-> estado,
                 result |-> IF io = "ok" THEN "ok" ELSE "error" ]
  /\ UNCHANGED <<now, usuarios, cache, cacheAll, cacheStats, inflight,
               tick, started, scheduled, log, cleared>>
  /\ UNCHANGED <<crudVars, pollerVars, helperVars, flightVars>>

\* --------------------------------------------------- tracking reads
\* the estado of every stored quote, as getAllWithTracking maps the snapshot
StoredEstados ==
  [q \in Quotes |-> MapDocumentToQuoteTracking(quotes[q]).estado]

\* porEstado of getTrackingStats: the count of quotes per estado
PorEstado(estados) ==
  [s \in QuoteStatus |-> Cardinality({q \in Quotes : estados[q] = s})]

\* getByIdWithTracking(id) misses the cache and its getDoc answers; the call
\* is now between that await and its cache.set
GetByIdWithTrackingRead(q) ==
  /\ inflight.kind = "none"
  /\ ~cache[q].present
  /\ inflight' = [NoRead EXCEPT !.kind = "id", !.q = q,
                                !.doc = MapDocumentToQuoteTracking(quotes[q])]
  /\ UNCHANGED <<now, quotes, usuarios, cache, cacheAll, cacheStats, tick,
                 started, scheduled, log, cleared, lastOp>>
  /\ UNCHANGED <<crudVars, pollerVars, helperVars, flightVars>>

\* getAllWithTracking() misses the cache and its getDocs answers
GetAllWithTrackingRead ==
  /\ inflight.kind = "none"
  /\ ~cacheAll.present
  /\ inflight' = [NoRead EXCEPT !.kind = "all", !.estados = StoredEstados]
  /\ UNCHANGED <<now, quotes, usuarios, cache, cacheAll, cacheStats, tick,
                 started, scheduled, log, cleared, lastOp>>
  /\ UNCHANGED <<crudVars, pollerVars, helperVars, flightVars>>

\* getTrackingStats() misses the cache, and so does the getAllWithTracking it
\* awaits, whose getDocs answers
GetTrackingStatsRead ==
  /\ inflight.kind = "none"
  /\ ~cacheStats.present
  /\ ~cacheAll.present
  /\ inflight' = [NoRead EXCEPT !.kind = "stats", !.estados = StoredEstados]
  /\ UNCHANGED <<now, quotes, usuarios, cache, cacheAll, cacheStats, tick,
                 started, scheduled, log, cleared, lastOp>>
  /\ UNCHANGED <<crudVars, pollerVars, helperVars, flightVars>>

\* getTrackingStats() misses the cache and the getAllWithTracking it awaits is
\* served from the cached list
GetTrackingStatsFromList ==
  /\ ~cacheStats.present
  /\ cacheAll.present
  /\ cacheStats' = [present |-> TRUE, porEstado |-> PorEstado(cacheAll.estados)]
  /\ UNCHANGED <<now, quotes, usuarios, cache, cacheAll, inflight, tick,
                 started, scheduled, log, cleared, lastOp>>
  /\ UNCHANGED <<crudVars, pollerVars, helperVars, flightVars>>

\* the read in flight goes on after its await: cache.set of what it read
\* (for getTrackingStats, of the list and then of the statistics)
TrackingReadEnd ==
  /\ inflight.kind # "none"
  /\ cache' = IF inflight.kind = "id"
                THEN [cache EXCEPT ![inflight.q] = inflight.doc] ELSE cache
  /\ cacheAll' = IF inflight.kind \in {"all", "stats"}
                   THEN [present |-> TRUE, estados |-> inflight.estados]
                   ELSE cacheAll
  /\ cacheStats' = IF inflight.kind = "stats"
                     THEN [present |-> TRUE, porEstado |-> PorEstado(inflight.estados)]
                     ELSE cacheStats
  /\ inflight' = NoRead
  /\ UNCHANGED <<now, quotes, usuarios, tick, started, scheduled, log, cleared,
                 lastOp>>
  /\ UNCHANGED <<crudVars, pollerVars, helperVars, flightVars>>

\* ------------------------------------------------------------ entity cache
\* key.startsWith(type) || key.includes(type + '-') for the key prefixes
\* the services build ("clients:{}", "client:<id>", "items:{}", "item:<id>")
KeyMatches(prefix, type) ==
  \/ type = "client" /\ prefix \in {"clients", "client"}
  \/ type = "item" /\ prefix \in {"items", "item"}

\* invalidateRelatedCache(type): deletes every entry whose key matches
InvalidateRelatedCache(c, type) ==
  [ clients |-> IF KeyMatches("clients", type) THEN NoCache.clients ELSE c.clients,
    client  |-> IF KeyMatches("client", type) THEN NoCache.client ELSE c.client,
    items   |-> IF KeyMatches("items", type) THEN NoCache.items ELSE c.items,
    item    |-> IF KeyMatches("item", type) THEN NoCache.item ELSE c.item ]

\* lastOp after an operation of an entity service or endpoint
CrudOp(op, id, result) == [NoOp EXCEPT !.op = op, !.q = id, !.result = result]

\* ----------------------------------------------------------- ClienteService
CrudOutcomes == {"ok", "readFails", "writeFails"}

MapDocumentToCliente(d) ==
  [st |-> d.st, email |-> IF d.email = Null THEN "" ELSE d.email,
   activo |-> d.activo # FALSE]

\* getByEmail: the documents whose email equals email.toLowerCase(); limit(1)
\* returns any one of them, Null when there is none
GetByEmail(email) ==
  LET found == { id \in ClientIds : /\ clientes[id].st = "stored"
                                    /\ clientes[id].email = ToLowerCase(email) }
  IN IF found = {} THEN {Null} ELSE found

\* getById(id): the cached client, else the stored one, which it caches
ClienteGetById(id, io) ==
  /\ ecache' =
       IF ~ecache.client[id].present /\ io = "ok" /\ clientes[id].st = "stored"
         THEN [ecache EXCEPT !.client[id] =
                 [present |-> TRUE, doc |-> MapDocumentToCliente(clientes[id])]]
         ELSE ecache
  /\ lastOp' = NoOp
  /\ UNCHANGED <<clientes, items, categorias, configuracion, eliminadas>>
  /\ UNCHANGED <<trackingVars, pollerVars, helperVars, flightVars>>

\* getById(id) up to the return of its getDoc: on a cache miss the stored
\* document is fetched (a missing document or a throw ends the call)
ClienteGetByIdRead(id, io) ==
  /\ reading.pc = "idle"
  /\ ~ecache.client[id].present
  /\ reading' = IF io = "ok" /\ clientes[id].st = "stored"
                  THEN [ pc |-> "got", id |-> id,
                         doc |-> MapDocumentToCliente(clientes[id]) ]
                  ELSE reading
  /\ lastOp' = NoOp
  /\ UNCHANGED <<crudVars, updating>>
  /\ UNCHANGED <<trackingVars, pollerVars, helperVars>>

\* the rest of that getById: cache.set of the client it fetched
ClienteGetByIdSet ==
  /\ reading.pc = "got"
  /\ ecache' = [ecache EXCEPT !.client[reading.id] =
                  [present |-> TRUE, doc |-> reading.doc]]
  /\ reading' = NoReading
  /\ lastOp' = NoOp
  /\ UNCHANGED <<clientes, items, categorias, configuracion, eliminadas, updating>>
  /\ UNCHANGED <<trackingVars, pollerVars, helperVars>>

\* getAll(): the cached list, else the stored clients, which it caches
ClienteGetAll(io) ==
  /\ ecache' =
       IF ~ecache.clients.present /\ io = "ok"
         THEN [ecache EXCEPT !.clients =
                 [present |-> TRUE,
                  docs |-> [id \in ClientIds |->
                              IF clientes[id].st = "stored"
                                THEN MapDocumentToCliente(clientes[id])
                                ELSE NoCliente]]]
         ELSE ecache
  /\ lastOp' = NoOp
  /\ UNCHANGED <<clientes, items, categorias, configuracion, eliminadas>>
  /\ UNCHANGED <<trackingVars, pollerVars, helperVars, flightVars>>

\* the id addDoc hands out: the first one never used
FreshId(order, coll) ==
  LET free == { k \in 1..Len(order) : coll[order[k]].st = "none" }
  IN order[CHOOSE k \in free : \A j \in free : k <= j]

\* create(clienteData): refused when getByEmail finds a client; otherwise
\* addDoc stores the data as given, getDoc reads it back and the cache of
\* 'client' is invalidated.  io = "rereadFails": that getDoc throws.
ClienteCreate(email, io) ==
  /\ \E id \in ClientIds : clientes[id].st = "none"
  /\ \E existing \in GetByEmail(email) :
       LET id == FreshId(ClientOrder, clientes)
           result == IF io = "readFails" THEN "error"
                     ELSE IF existing # Null THEN "duplicate"
                     ELSE IF io = "ok" THEN "ok" ELSE "error"
           written == io \in {"ok", "rereadFails"} /\ existing = Null
       IN /\ clientes' = IF written
                           THEN [clientes EXCEPT ![id] =
                                   [st |-> "stored", email |-> email, activo |-> TRUE]]
                           ELSE clientes
          /\ ecache' = IF result = "ok" THEN InvalidateRelatedCache(ecache, "client")
                       ELSE ecache
          /\ lastOp' = CrudOp("client.create", id, result)
  /\ UNCHANGED <<items, categorias, configuracion, eliminadas>>
  /\ UNCHANGED <<trackingVars, pollerVars, helperVars, flightVars>>

\* update(id, updates) under the name op.  With an email in updates:
\* getById (cached), 'Cliente no encontrado' when there is none, and when
\* the email changes getByEmail, refused when it finds another client.  Then
\* updateDoc, which throws on a missing document, and the invalidation.
\* io = "readFails": the reads throw.
ClienteUpdateAs(op, id, updates, io) ==
  \E existing \in GetByEmail(IF updates.email = Null THEN "" ELSE updates.email) :
    LET check == updates.email # Null
        hit == ecache.client[id].present
        stored == clientes[id].st = "stored"
        fetched == check /\ ~hit /\ io # "readFails" /\ stored
        current == IF hit THEN ecache.client[id].doc
                   ELSE MapDocumentToCliente(clientes[id])
        afterGet == IF fetched
                      THEN [ecache EXCEPT !.client[id] =
                              [present |-> TRUE, doc |-> current]]
                      ELSE ecache
        changes == check /\ current.email # updates.email
        result ==
          IF check /\ ~hit /\ io = "readFails" THEN "error"
          ELSE IF check /\ ~hit /\ ~stored THEN "notFound"
          ELSE IF changes /\ io = "readFails" THEN "error"
          ELSE IF changes /\ existing # Null /\ existing # id THEN "duplicate"
          ELSE IF ~stored \/ io = "writeFails" THEN "error"
          ELSE "ok"
    IN /\ clientes' =
            IF result = "ok"
              THEN [clientes EXCEPT
                      ![id].email = IF updates.email # Null THEN updates.email ELSE @,
                      ![id].activo = IF updates.activo # Null
                                       THEN Truthy(updates.activo) ELSE @]
              ELSE clientes
       /\ ecache' = IF result = "ok" THEN InvalidateRelatedCache(afterGet, "client")
                    ELSE afterGet
       /\ lastOp' = CrudOp(op, id, result)
       /\ UNCHANGED <<items, categorias, configuracion, eliminadas>>
       /\ UNCHANGED <<trackingVars, pollerVars, helperVars, flightVars>>

ClienteUpdate(id, email, io) ==
  ClienteUpdateAs("client.update", id, [email |-> email, activo |-> Null], io)

\* a delete that would remove the document
ClienteDeleteRemoves(id, io) ==
  /\ clientes[id].st = "stored" /\ io = "ok"
  /\ clientes' = [clientes EXCEPT ![id] = [NoCliente EXCEPT !.st = "removed"]]
  /\ ecache' = InvalidateRelatedCache(ecache, "client")
  /\ lastOp' = CrudOp("client.delete", id, "ok")
  /\ UNCHANGED <<items, categorias, configuracion, eliminadas>>
  /\ UNCHANGED <<trackingVars, pollerVars, helperVars, flightVars>>

\* delete(id): soft delete, update(id, { activo: false })
ClienteDelete(id, io) ==
  ClienteUpdateAs("client.delete", id, [email |-> Null, activo |-> "false"], io)

\* deletePermanently(id): deleteDoc, and nothing else
ClienteDeletePermanently(id, io) ==
  /\ clientes' = IF io = "ok" /\ clientes[id].st = "stored"
                   THEN [clientes EXCEPT ![id] = [NoCliente EXCEPT !.st = "removed"]]
                   ELSE clientes
  /\ lastOp' = CrudOp("client.deletePermanently", id,
                      IF io = "ok" THEN "ok" ELSE "error")
  /\ UNCHANGED <<items, categorias, configuracion, eliminadas, ecache>>
  /\ UNCHANGED <<trackingVars, pollerVars, helperVars, flightVars>>

\* the quotes of a client that cotizacionService.getAll() returns
ClientQuotes(id) == { q \in Quotes \ eliminadas : ClienteIdDe[q] = id }

\* DELETE of the clients endpoint: 409 when the client has quotes, else
\* clienteService.delete(id).  io = "readFails": getAll of the quotes throws.
ClientsDELETE(id, io) ==
  IF io = "readFails" \/ ClientQuotes(id) # {}
    THEN /\ lastOp' = CrudOp("clients.DELETE", id,
                             IF io = "readFails" THEN "error" ELSE "conflict")
         /\ UNCHANGED <<trackingVars, pollerVars, crudVars, helperVars, flightVars>>
    ELSE ClienteUpdateAs("clients.DELETE", id,
                         [email |-> Null, activo |-> "false"], io)

\* DELETE of the quotes endpoint: cotizacionService.delete(id), a deleteDoc
CotizacionDelete(q, io) ==
  /\ eliminadas' = IF io = "ok" THEN eliminadas \cup {q} ELSE eliminadas
  /\ lastOp' = CrudOp("quotes.DELETE", q, IF io = "ok" THEN "ok" ELSE "error")
  /\ UNCHANGED <<clientes, items, categorias, configuracion, ecache>>
  /\ UNCHANGED <<trackingVars, pollerVars, helperVars, flightVars>>

\* -------------------------------------------------------------- ItemService
MapDocumentToItem(d) ==
  [st |-> d.st, codigo |-> d.codigo, activo |-> d.activo # FALSE]

\* getByCodigo: the documents whose codigo equals codigo.toUpperCase();
\* limit(1) returns any one of them, Null when there is none
GetByCodigo(codigo) ==
  LET found == { id \in ItemIds : /\ items[id].st = "stored"
                                  /\ items[id].codigo = ToUpperCase(codigo) }
  IN IF found = {} THEN {Null} ELSE found

\* getById(id): the cached item, else the stored one, which it caches
ItemGetById(id, io) ==
  /\ ecache' =
       IF ~ecache.item[id].present /\ io = "ok" /\ items[id].st = "stored"
         THEN [ecache EXCEPT !.item[id] =
                 [present |-> TRUE, doc |-> MapDocumentToItem(items[id])]]
         ELSE ecache
  /\ lastOp' = NoOp
  /\ UNCHANGED <<clientes, items, categorias, configuracion, eliminadas>>
  /\ UNCHANGED <<trackingVars, pollerVars, helperVars, flightVars>>

\* getAll(): the cached list, else the stored items, which it caches
ItemGetAll(io) ==
  /\ ecache' =
       IF ~ecache.items.present /\ io = "ok"
         THEN [ecache EXCEPT !.items =
                 [present |-> TRUE,
                  docs |-> [id \in ItemIds |->
                              IF items[id].st = "stored"
                                THEN MapDocumentToItem(items[id])
                                ELSE NoItem]]]
         ELSE ecache
  /\ lastOp' = NoOp
  /\ UNCHANGED <<clientes, items, categorias, configuracion, eliminadas>>
  /\ UNCHANGED <<trackingVars, pollerVars, helperVars, flightVars>>

\* create(itemData) with a codigo: refused when getByCodigo finds an item;
\* otherwise addDoc stores the data as given, getDoc reads it back and the
\* cache of 'item' is invalidated.  io = "rereadFails": that getDoc throws.
ItemCreate(codigo, io) ==
  /\ \E id \in ItemIds : items[id].st = "none"
  /\ \E existing \in GetByCodigo(codigo) :
       LET id == FreshId(ItemOrder, items)
           result == IF io = "readFails" THEN "error"
                     ELSE IF existing # Null THEN "duplicate"
                     ELSE IF io = "ok" THEN "ok" ELSE "error"
           written == io \in {"ok", "rereadFails"} /\ existing = Null
       IN /\ items' = IF written
                        THEN [items EXCEPT ![id] =
                                [st |-> "stored", codigo |-> codigo, activo |-> TRUE]]
                        ELSE items
          /\ ecache' = IF result = "ok" THEN InvalidateRelatedCache(ecache, "item")
                       ELSE ecache
          /\ lastOp' = CrudOp("item.create", id, result)
  /\ UNCHANGED <<clientes, categorias, configuracion, eliminadas>>
  /\ UNCHANGED <<trackingVars, pollerVars, helperVars, flightVars>>

\* update(id, updates) under the name op.  With a codigo in updates:
\* getByCodigo, refused when it finds another item.  Then updateDoc, which
\* throws on a missing document, and the invalidation.
ItemUpdateAs(op, id, updates, io) ==
  \E existing \in GetByCodigo(IF updates.codigo = Null THEN "" ELSE updates.codigo) :
    LET check == updates.codigo # Null
        stored == items[id].st = "stored"
        result ==
          IF check /\ io = "readFails" THEN "error"
          ELSE IF check /\ existing # Null /\ existing # id THEN "duplicate"
          ELSE IF ~stored \/ io = "writeFails" THEN "error"
          ELSE "ok"
    IN /\ items' =
            IF result = "ok"
              THEN [items EXCEPT
                      ![id].codigo = IF updates.codigo # Null THEN updates.codigo ELSE @,
                      ![id].activo = IF updates.activo # Null
                                       THEN Truthy(updates.activo) ELSE @]
              ELSE items
       /\ ecache' = IF result = "ok" THEN InvalidateRelatedCache(ecache, "item")
                    ELSE ecache
       /\ lastOp' = CrudOp(op, id, result)
       /\ UNCHANGED <<clientes, categorias, configuracion, eliminadas>>
       /\ UNCHANGED <<trackingVars, pollerVars, helperVars, flightVars>>

ItemUpdate(id, codigo, io) ==
  ItemUpdateAs("item.update", id, [codigo |-> codigo, activo |-> Null], io)

\* delete(id): soft delete, update(id, { activo: false })
ItemDelete(id, io) ==
  ItemUpdateAs("item.delete", id, [codigo |-> Null, activo |-> "false"], io)

\* deletePermanently(id): deleteDoc, and nothing else
ItemDeletePermanently(id, io) ==
  /\ items' = IF io = "ok" /\ items[id].st = "stored"
                THEN [items EXCEPT ![id] = [NoItem EXCEPT !.st = "removed"]]
                ELSE items
  /\ lastOp' = CrudOp("item.deletePermanently", id,
                      IF io = "ok" THEN "ok" ELSE "error")
  /\ UNCHANGED <<clientes, categorias, configuracion, eliminadas, ecache>>
  /\ UNCHANGED <<trackingVars, pollerVars, helperVars, flightVars>>

\* --------------------------------------------------------- CategoriaService
\* getItemsCount(categoriaId): the number of item documents of the
\* category, active or not; 0 when the query throws (countOk = FALSE)
GetItemsCount(categoriaId, countOk) ==
  IF countOk
    THEN Cardinality({ i \in ItemIds : /\ items[i].st = "stored"
                                       /\ CategoriaIdDe[i] = categoriaId })
    ELSE 0

\* delete(id): refused when getItemsCount is positive, else deleteDoc
CategoriaDelete(id, countOk, io) ==
  LET result == IF GetItemsCount(id, countOk) > 0 THEN "hasItems"
                ELSE IF io = "ok" THEN "ok" ELSE "error"
  IN /\ categorias' = IF result = "ok" THEN categorias \ {id} ELSE categorias
     /\ lastOp' = CrudOp("category.delete", id, result)
     /\ UNCHANGED <<clientes, items, configuracion, eliminadas, ecache>>
     /\ UNCHANGED <<trackingVars, pollerVars, helperVars, flightVars>>

\* ----------------------------------------------------- ConfiguracionService
Valores == {"21"}

\* set(clave, valor): addDoc when no document has the clave, else updateDoc
ConfiguracionSet(clave, valor, io) ==
  /\ configuracion' = IF io = "ok"
                        THEN [configuracion EXCEPT ![clave] =
                                [st |-> "stored", valor |-> valor]]
                        ELSE configuracion
  /\ lastOp' = CrudOp("config.set", clave, IF io = "ok" THEN "ok" ELSE "error")
  /\ UNCHANGED <<clientes, items, categorias, eliminadas, ecache>>
  /\ UNCHANGED <<trackingVars, pollerVars, helperVars, flightVars>>

\* delete(clave): 'Configuración no encontrada' when no document has the
\* clave, else deleteDoc
ConfiguracionDelete(clave, io) ==
  LET result == IF io = "readFails" THEN "error"
                ELSE IF configuracion[clave].st # "stored" THEN "notFound"
                ELSE IF io = "ok" THEN "ok" ELSE "error"
  IN /\ configuracion' = IF result = "ok"
                           THEN [configuracion EXCEPT ![clave] = NoConfig]
                           ELSE configuracion
     /\ lastOp' = CrudOp("config.delete", clave, result)
     /\ UNCHANGED <<clientes, items, categorias, eliminadas, ecache>>
     /\ UNCHANGED <<trackingVars, pollerVars, helperVars, flightVars>>

\* a call of calculateTotals
CalculateTotalsCall(its, descuento) ==
  /\ totals' = [items |-> its, descuento |-> descuento,
                result |-> CalculateTotals(its, descuento)]
  /\ UNCHANGED <<trackingVars, lastOp, pollerVars, crudVars, duration, numero,
                 flightVars>>

\* a call of calculateDurationInDays
CalculateDurationInDaysCall(startDate, endDate) ==
  /\ duration' = [start |-> startDate, end |-> endDate,
                  result |-> CalculateDurationInDays(startDate, endDate)]
  /\ UNCHANGED <<trackingVars, lastOp, pollerVars, crudVars, totals, numero,
                 flightVars>>

\* a call of generateQuoteNumber
GenerateQuoteNumberCall(cotizacion, cliente) ==
  /\ numero' = [cotizacion |-> cotizacion, cliente |-> cliente,
                threw |-> GenerateQuoteNumber(cotizacion, cliente).threw,
                parts |-> GenerateQuoteNumber(cotizacion, cliente).parts]
  /\ UNCHANGED <<trackingVars, lastOp, pollerVars, crudVars, totals, duration,
                 flightVars>>

\* ------------------------------------------------------- specification
\* Reminders: the web handlers and the poller.  A handler that the store
\* refuses is refused at its read here; the refused write, which differs only
\* by the cache entry it leaves, is part of NextStatus.
Next ==
  \/ Advance
  \/ \E q \in Quotes, inp \in ReminderInputs, io \in {"ok", "readFails"} :
       ScheduleReminder(q, inp, io)
  \/ \E q \in Quotes, io \in {"ok", "readFails"} : DeleteReminder(q, io)
  \/ \E t \in Ticks, readOk \in BOOLEAN, usersOk \in BOOLEAN :
       ~isRunning /\ Start(t, readOk, usersOk)
  \/ \E t \in Ticks, readOk \in BOOLEAN, usersOk \in BOOLEAN :
       ProcessRemindersStart(t, readOk, usersOk)
  \/ \E t \in Ticks, outcome \in SendOutcomes, usersOk \in BOOLEAN :
       ProcessRemindersSend(t, outcome, usersOk)
  \/ \E t \in Ticks, writeOk \in BOOLEAN, usersOk \in BOOLEAN :
       ProcessRemindersClear(t, writeOk, usersOk)

Spec == Init /\ [][Next]_vars

\* Status: updateStatus behind the read cache, the PUT endpoint, and the
\* other users of the cache.
NextStatus ==
  \/ \E q \in Quotes, s \in QuoteStatus, io \in IoOutcomes : UpdateStatus(q, s, io)
  \/ \E q \in Quotes, io \in IoOutcomes : TrackingGet(q, io)
  \/ \E q \in Quotes, s \in QuoteStatus, io \in IoOutcomes : Put(q, s, io)
  \/ \E q \in Quotes : CacheExpire(q)
  \/ \E q \in Quotes : DeleteReminder(q, "writeFails")

SpecStatus == Init /\ [][NextStatus]_vars

\* updateStatus calls of several callers on one quote, interleaved at their
\* awaits
NextUpdateStatus ==
  \/ \E c \in Callers, q \in {QuoteOrder[1]}, s \in QuoteStatus, io \in {"ok", "readFails"} :
       UpdateStatusRead(c, q, s, io)
  \/ \E c \in Callers, io \in {"ok", "writeFails"} : UpdateStatusWrite(c, io)

SpecUpdateStatus == Init /\ [][NextUpdateStatus]_vars

\* Tracking cache: updateStatus on the first quote, among the statuses
\* CacheStatuses, and the three cached reads with their awaits.
CacheStatuses == {"borrador", "enviada", "revisada", "rechazada"}

NextCache ==
  \/ \E s \in CacheStatuses, io \in IoOutcomes : UpdateStatus(QuoteOrder[1], s, io)
  \/ \E q \in Quotes : GetByIdWithTrackingRead(q)
  \/ GetAllWithTrackingRead
  \/ GetTrackingStatsRead
  \/ GetTrackingStatsFromList
  \/ TrackingReadEnd

SpecCache == Init /\ [][NextCache]_vars

\* Poller control: start() and stop() around the executions, with one
\* reminder scheduled on the first quote.
NextPoller ==
  \/ Advance
  \/ \E inp \in ReminderInputs : ScheduleReminder(QuoteOrder[1], inp, "ok")
  \/ \E t \in Ticks, usersOk \in BOOLEAN : Start(t, TRUE, usersOk)
  \/ Stop
  \/ \E t \in Ticks, usersOk \in BOOLEAN : ProcessRemindersStart(t, TRUE, usersOk)
  \/ \E t \in Ticks, outcome \in SendOutcomes, usersOk \in BOOLEAN :
       ProcessRemindersSend(t, outcome, usersOk)
  \/ \E t \in Ticks, writeOk \in BOOLEAN, usersOk \in BOOLEAN :
       ProcessRemindersClear(t, writeOk, usersOk)

SpecPoller == Init /\ [][NextPoller]_vars

\* no execution of processReminders is between its awaits
NoExecutionUnderWay == \A u \in Ticks : Free(u)

\* the service keeps nothing of its past executions: once MaxRuns of them
\* have ended, the history kept of them (started, log, cleared and the ended
\* slots) is dropped, so that the timer can go on firing
Forget ==
  /\ Len(started) = MaxRuns
  /\ NoExecutionUnderWay
  /\ started' = <<>> /\ log' = {} /\ cleared' = {}
  /\ tick' = [t \in Ticks |-> IdleTick]
  /\ lastOp' = NoOp
  /\ UNCHANGED <<now, quotes, usuarios, cache, cacheAll, cacheStats, inflight,
               scheduled>>
  /\ UNCHANGED <<crudVars, pollerVars, helperVars, flightVars>>

\* the poller when every execution ends before the timer fires again
NextSerial ==
  \/ Advance
  \/ \E inp \in ReminderInputs : ScheduleReminder(QuoteOrder[1], inp, "ok")
  \/ \E t \in Ticks, readOk \in BOOLEAN, usersOk \in BOOLEAN :
       ~isRunning /\ Start(t, readOk, usersOk)
  \/ \E t \in Ticks, readOk \in BOOLEAN, usersOk \in BOOLEAN :
       NoExecutionUnderWay /\ ProcessRemindersStart(t, readOk, usersOk)
  \/ \E t \in Ticks, outcome \in SendOutcomes, usersOk \in BOOLEAN :
       ProcessRemindersSend(t, outcome, usersOk)
  \/ \E t \in Ticks, writeOk \in BOOLEAN, usersOk \in BOOLEAN :
       ProcessRemindersClear(t, writeOk, usersOk)

SpecSerial == Init /\ [][NextSerial]_vars

\* the steps of the running poller that the liveness of a reminder rests on
TimerFiresAndLists ==
  \E t \in Ticks, usersOk \in BOOLEAN : ProcessRemindersStart(t, TRUE, usersOk)
SendReturns ==
  \E t \in Ticks, outcome \in SendOutcomes, usersOk \in BOOLEAN :
    ProcessRemindersSend(t, outcome, usersOk)
SendSucceeds ==
  \E t \in Ticks, usersOk \in BOOLEAN : ProcessRemindersSend(t, "ok", usersOk)
ClearReturns ==
  \E t \in Ticks, writeOk \in BOOLEAN, usersOk \in BOOLEAN :
    ProcessRemindersClear(t, writeOk, usersOk)
ClearSucceeds ==
  \E t \in Ticks, usersOk \in BOOLEAN : ProcessRemindersClear(t, TRUE, usersOk)

\* the poller that is started and never stopped, with one quote's reminders
NextLive ==
  \/ Advance
  \/ \E inp \in ReminderInputs : ScheduleReminder(QuoteOrder[1], inp, "ok")
  \/ DeleteReminder(QuoteOrder[1], "ok")
  \/ \E t \in Ticks, usersOk \in BOOLEAN : ~isRunning /\ Start(t, TRUE, usersOk)
  \/ \E t \in Ticks, readOk \in BOOLEAN, usersOk \in BOOLEAN :
       ProcessRemindersStart(t, readOk, usersOk)
  \/ SendReturns
  \/ ClearReturns
  \/ Forget

\* setInterval fires the callback again and again and every await of an
\* execution returns (weak fairness); over and over a tick lists the quotes,
\* a send succeeds and a clearing write succeeds (strong fairness)
SpecLive ==
  /\ Init /\ [][NextLive]_vars
  /\ WF_vars(Forget) /\ WF_vars(SendReturns) /\ WF_vars(ClearReturns)
  /\ SF_vars(TimerFiresAndLists) /\ SF_vars(SendSucceeds) /\ SF_vars(ClearSucceeds)

\* Clients: the client service behind its cache, the clients and quotes
\* DELETE endpoints, and the permanent delete of the first item; the store
\* answers every call but the two named.
NextClientes ==
  \/ \E id \in ClientIds : ClienteGetById(id, "ok")
  \/ ClienteGetAll("ok")
  \/ \E e \in Emails, io \in {"ok", "rereadFails"} : ClienteCreate(e, io)
  \/ \E id \in ClientIds, e \in Emails : ClienteUpdate(id, e, "ok")
  \/ \E id \in ClientIds : ClienteDelete(id, "ok")
  \/ \E id \in ClientIds : ClienteDeletePermanently(id, "ok")
  \/ \E id \in ClientIds, io \in {"ok", "readFails"} : ClientsDELETE(id, io)
  \/ \E q \in Quotes : CotizacionDelete(q, "ok")
  \/ ItemGetById(ItemOrder[1], "ok")
  \/ ItemDeletePermanently(ItemOrder[1], "ok")

SpecClientes == Init /\ [][NextClientes]_vars

\* client reads interleaved, at the await of their getDoc, with mutations
\* that invalidate the cache
NextReads ==
  \/ \E id \in ClientIds, io \in {"ok", "readFails"} : ClienteGetByIdRead(id, io)
  \/ ClienteGetByIdSet
  \/ \E id \in ClientIds : ClienteGetById(id, "ok")
  \/ ClienteGetAll("ok")
  \/ ClienteCreate("ana@x.com", "ok")
  \/ \E id \in ClientIds, e \in Emails : ClienteUpdate(id, e, "ok")
  \/ \E id \in ClientIds : ClienteDelete(id, "ok")

SpecReads == Init /\ [][NextReads]_vars

\* Entities: the mutations of the four entity services, the store
\* answering every call but the count of a category's items.
NextCrud ==
  \/ \E e \in Emails : ClienteCreate(e, "ok")
  \/ \E id \in ClientIds, e \in Emails : ClienteUpdate(id, e, "ok")
  \/ \E id \in ClientIds : ClienteDelete(id, "ok")
  \/ \E c \in Codigos : ItemCreate(c, "ok")
  \/ \E id \in ItemIds, c \in Codigos : ItemUpdate(id, c, "ok")
  \/ \E id \in ItemIds : ItemDelete(id, "ok")
  \/ \E id \in CategoriaIds, countOk \in BOOLEAN : CategoriaDelete(id, countOk, "ok")
  \/ \E k \in Claves, v \in Valores : ConfiguracionSet(k, v, "ok")
  \/ \E k \in Claves, io \in CrudOutcomes : ConfiguracionDelete(k, io)

SpecCrud == Init /\ [][NextCrud]_vars

\* Totals: calculateTotals on every item list and discount of the bounds.
NextTotals ==
  \E its \in ItemLists, descuento \in Descuentos : CalculateTotalsCall(its, descuento)

SpecTotals == Init /\ [][NextTotals]_vars

\* Duration: calculateDurationInDays on every pair of arguments.
NextDuration ==
  \E startDate \in DateArgs, endDate \in DateArgs :
    CalculateDurationInDaysCall(startDate, endDate)

SpecDuration == Init /\ [][NextDuration]_vars

\* Quote number: generateQuoteNumber on every quote and client.
NextNumero ==
  \E cotizacion \in Cotizaciones, cliente \in Clients :
    GenerateQuoteNumberCall(cotizacion, cliente)

SpecNumero == Init /\ [][NextNumero]_vars

\* ------------------------------------------------------ claims: reminders
Range(sq) == { sq[i] : i \in 1..Len(sq) }

\* no part of a reminder is stored on document d
ReminderFieldsCleared(d) ==
  /\ d.proximoSeguimiento = 0
  /\ d.proximoSeguimientoTipo = Null
  /\ d.proximoSeguimientoMensaje = Null
  /\ ~Truthy(d.proximoSeguimientoEmail)
  /\ ~Truthy(d.proximoSeguimientoPush)
  /\ d.proximoSeguimientoUsuario = Null
  /\ Len(d.proximoSeguimientoDestinatarios) = 0

\* the reminder fields of document d, as the arguments of scheduleReminder
ReminderOf(d) ==
  [ fecha |-> d.proximoSeguimiento,
    tipo |-> d.proximoSeguimientoTipo,
    mensaje |-> d.proximoSeguimientoMensaje,
    sendEmail |-> d.proximoSeguimientoEmail = "true",
    sendPush |-> d.proximoSeguimientoPush = "true",
    userName |-> d.proximoSeguimientoUsuario,
    recipients |-> d.proximoSeguimientoDestinatarios ]

\* execution r attempted a send of document w to address to
Attempted(r, w, to) ==
  \E e \in log : e.run = r /\ e.q = w.q /\ e.inst = w.inst /\ e.to = to

\* execution r has attempted reminder i and none of its sends succeeded
AllFailed(r, i) ==
  /\ \E e \in log : e.run = r /\ e.inst = i
  /\ \A e \in log : (e.run = r /\ e.inst = i) => ~e.ok

\* C1: when a tick's clearing write succeeds (at least one send succeeded) on
\* a quote that still holds the reminder it dispatched, every reminder field
\* of that quote is cleared afterwards: due time, type, message, both channel
\* flags, actor and the recipient list.
C1_TickClearsEveryField ==
  [][ \A c \in cleared' \ cleared :
        quotes[c.q].inst = c.inst => ReminderFieldsCleared(quotes'[c.q]) ]_vars

\* C2: an execution changes a stored quote only in the step that follows at
\* least one successful send for that quote's reminder; in particular, when
\* every send for a reminder fails, no step of the execution changes the quote.
C2_AllFailedLeavesReminder ==
  [][ \A t \in Ticks, q \in Quotes :
        (tick'[t] # tick[t] /\ quotes'[q] # quotes[q]) =>
          /\ tick[t].enviados > 0
          /\ tick[t].work[tick[t].idx].q = q ]_vars

\* C2 witness: an execution has ended, every send of one reminder failed in
\* it, and that reminder is still stored exactly as it was scheduled
C2_Witness ==
  \E t \in Ticks, q \in Quotes :
    /\ tick[t].pc = "done"
    /\ quotes[q].inst # 0
    /\ AllFailed(tick[t].run, quotes[q].inst)
    /\ ReminderOf(quotes[q]) = scheduled[quotes[q].inst].inp

\* C5: once an execution has cleared a reminder, a recipient whose send
\* failed in that execution is not sent that reminder by a later execution.
C5_FailedRecipientNotSentLater ==
  \A c \in cleared, e \in log, f \in log :
    ( /\ e.run = c.run /\ e.inst = c.inst /\ ~e.ok
      /\ f.inst = c.inst /\ f.to = e.to ) => f.run <= c.run

\* C7: every execution attempts a send to every resolved recipient of every
\* due document it has gone past, whatever the earlier sends returned; at the
\* document it is at, to every recipient before the remaining ones.
C7_FailureDoesNotStopTick ==
  \A t \in Ticks :
    LET tk == tick[t] IN
    \A k \in 1..Len(tk.dests) :
      LET dest == tk.dests[k] IN
      /\ k < tk.idx => \A to \in Range(dest) : Attempted(tk.run, tk.work[k], to)
      /\ k = tk.idx =>
           \A j \in 1..(Len(dest) - Len(tk.rem)) : Attempted(tk.run, tk.work[k], dest[j])

\* C7 witness: an execution has ended; the first send of its first document
\* failed, and it went on to the second recipient and to a second document
C7_Witness ==
  \E t \in Ticks :
    LET tk == tick[t] IN
    /\ tk.pc = "done"
    /\ Len(tk.work) = 2
    /\ Len(tk.work[1].destinatarios) = 2
    /\ \E e \in log : /\ e.run = tk.run /\ e.inst = tk.work[1].inst
                      /\ e.to = tk.work[1].destinatarios[1] /\ ~e.ok
    /\ Attempted(tk.run, tk.work[1], tk.work[1].destinatarios[2])
    /\ \E e \in log : e.run = tk.run /\ e.inst = tk.work[2].inst

\* C8: the reminder stored on a quote is, in every field, the reminder of the
\* last scheduleReminder on that quote: nothing of an earlier one remains.
C8_ScheduleReplacesAllFields ==
  \A q \in Quotes :
    quotes[q].inst # 0 =>
      /\ scheduled[quotes[q].inst].q = q
      /\ ReminderOf(quotes[q]) = scheduled[quotes[q].inst].inp

\* C8 witness: a reminder was scheduled over a pending one that differed from
\* it in every field, and is the one stored
C8_Witness ==
  \E q \in Quotes :
    LET i == quotes[q].inst IN
    /\ i # 0
    /\ scheduled[i].over # 0
    /\ LET new == scheduled[i].inp
           old == scheduled[scheduled[i].over].inp
       IN /\ new.fecha # old.fecha /\ new.tipo # old.tipo
          /\ new.mensaje # old.mensaje /\ new.sendEmail # old.sendEmail
          /\ new.sendPush # old.sendPush /\ new.userName # old.userName
          /\ new.recipients # old.recipients

\* C9: a deleteReminder that succeeds leaves every reminder field of the
\* quote cleared (the recipient list included) and sends nothing.
C9_DeleteClearsAllFields ==
  [][ \A q \in Quotes :
        DeleteReminder(q, "ok") =>
          (ReminderFieldsCleared(quotes'[q]) /\ log' = log) ]_vars

\* C10: whenever an execution sends for a quote or changes a quote, the
\* reminder pending on that quote has the email channel enabled and a due
\* time <= the clock that execution read.
C10_OnlyDueRemindersTouched ==
  [][ \A t \in Ticks, q \in Quotes :
        ( /\ tick'[t] # tick[t]
          /\ \/ quotes'[q] # quotes[q]
             \/ \E e \in log' \ log : e.q = q )
        => IsDue(quotes[q], tick[t].tnow) ]_vars

ClaimedRecipients(dest) ==
  ResolveDestinatarios(dest, GetEmailNotificationUsers(TRUE))

\* C11: every send of an execution goes to a recipient of the reminder's own
\* list when that list is non-empty, otherwise to an active user flagged for
\* email notifications, and to the hardcoded address only when there is no
\* such user.
C11_RecipientsByFallbackChain ==
  [][ \A t \in Ticks :
        tick'[t] # tick[t] =>
          \A e \in log' \ log :
            e.to \in Range(ClaimedRecipients(tick[t].work[tick[t].idx].destinatarios)) ]_vars

\* --------------------------------------------------------- claims: status
\* C3: an updateStatus that the store serves stores the new status exactly when the pair (stored
\* status, new status) is in the transition table; for a pair outside the table
\* it fails as an invalid transition and the stored quote is unchanged.
C3_StatusStoredIffInTable ==
  [][ \A q \in Quotes, s \in QuoteStatus :
        UpdateStatus(q, s, "ok") =>
          /\ lastOp'.result = "ok" =>
               (s \in TransicionesValidas(quotes[q].estado) /\ quotes'[q].estado = s)
          /\ s \notin TransicionesValidas(quotes[q].estado) =>
               (lastOp'.result = "invalid" /\ quotes'[q] = quotes[q]) ]_vars

\* C4: every successful updateStatus makes the stored history one entry longer.
C4_HistoryGrowsByOne ==
  [][ \A q \in Quotes, s \in QuoteStatus :
        (UpdateStatus(q, s, "ok") /\ lastOp'.result = "ok") =>
          Len(quotes'[q].historialCambios) = Len(quotes[q].historialCambios) + 1 ]_vars

\* C12: once an updateStatus has returned successfully, and until the next
\* status operation, whatever the cache would serve for that quote, for the
\* quote list and for the statistics reflects the new status.
C12_ReadsReflectNewStatus ==
  (lastOp.op = "updateStatus" /\ lastOp.result = "ok") =>
    /\ cache[lastOp.q].present => cache[lastOp.q].estado = lastOp.nuevoEstado
    /\ cacheAll.present => cacheAll.estados[lastOp.q] = lastOp.nuevoEstado
    /\ cacheStats.present => cacheStats.porEstado = PorEstado(StoredEstados)

\* the keys of the cached client and item entries
CachedClientKeys(c) ==
  { id \in ClientIds : c.client[id].present }
    \cup (IF c.clients.present THEN {"clients"} ELSE {})
CachedItemKeys(c) ==
  { id \in ItemIds : c.item[id].present }
    \cup (IF c.items.present THEN {"items"} ELSE {})

\* C13: whenever an operation mutates a client record or an item record
\* (create, update, soft delete, permanent delete), no cached list or get
\* entry of that entity type is left when the operation returns.
C13_MutationEmptiesTypeCache ==
  [][ /\ clientes' # clientes => CachedClientKeys(ecache') = {}
      /\ items' # items => CachedItemKeys(ecache') = {} ]_vars

C15_CategoryWithItemsStays ==
  [][ \A id \in CategoriaIds :
        (id \in categorias /\ GetItemsCount(id, TRUE) > 0) => id \in categorias' ]_vars

\* C16: a client that has at least one quote is never removed from the
\* store: no step takes the document of a client with a quote away.
C16_ClientWithQuotesStays ==
  [][ \A id \in ClientIds :
        (clientes[id].st = "stored" /\ ClientQuotes(id) # {})
          => clientes'[id].st = "stored" ]_vars

\* C17: no two stored clients hold the same email and no two stored items
\* hold the same code.
C17_UniqueEmailAndCode ==
  /\ \A a, b \in ClientIds :
       (a # b /\ clientes[a].st = "stored" /\ clientes[b].st = "stored")
         => clientes[a].email # clientes[b].email
  /\ \A a, b \in ItemIds :
       (a # b /\ items[a].st = "stored" /\ items[b].st = "stored")
         => items[a].codigo # items[b].codigo

\* C18: a quote is never removed from the store, whatever the operation.
C18_QuoteNeverRemoved ==
  [][ \A q \in Quotes : q \notin eliminadas => q \notin eliminadas' ]_vars

\* C19: a start() while the service runs is a no-op, it sets no second
\* timer and begins no execution of processReminders; and at most one
\* interval timer is set at any time.
C19_StartWhileRunningIsNoOp ==
  /\ [](Cardinality(timers) <= 1)
  /\ [][ (isRunning /\ \E t \in Ticks, readOk, usersOk \in BOOLEAN :
                         Start(t, readOk, usersOk))
           => UNCHANGED <<timers, intervalId, isRunning, tick, started, log,
                          quotes>> ]_vars

\* start() was called on a running service, whose one timer is set
C19_Witness ==
  /\ lastOp.op = "start" /\ lastOp.result = "already"
  /\ isRunning
  /\ Cardinality(timers) = 1

\* C20: the total that calculateTotals returns equals the subtotal it
\* returns minus the discount amount it returns, and that discount amount
\* equals the returned subtotal * d / 100 rounded to 2 decimals.
C20_TotalsAddUp ==
  /\ totals.result.total = totals.result.subtotal - totals.result.descuentoMonto
  /\ totals.result.descuentoMonto
       = MathRound(totals.result.subtotal * totals.descuento, 100)

\* C21: calculateDurationInDays returns 0 whenever one of its arguments is
\* not a valid date.
C21_InvalidDateGivesZero ==
  (duration.start.kind # "date" \/ duration.end.kind # "date")
    => duration.result = 0

\* the ISO timestamps of the moment of a call
IsoTimestamps == {"2026-11-03T00:00:00.000Z"}

\* C22: when generateQuoteNumber runs into an internal error, the number
\* it returns is COT-ERROR-<ISO timestamp>.
C22_ErrorGivesCotError ==
  numero.threw =>
    /\ Len(numero.parts) = 3
    /\ numero.parts[1] = "COT"
    /\ numero.parts[2] = "ERROR"
    /\ numero.parts[3] \in IsoTimestamps

\* C23: processReminders has no mutual-exclusion guard: whenever the timer
\* is set, its callback can begin an execution, whatever executions are
\* still under way; the witness is an overlap in which one reminder is sent
\* twice to the same recipient.
C23_TickNotExcluded ==
  (timers # {} /\ Len(started) < MaxRuns) =>
    ENABLED (\E t \in Ticks, readOk \in BOOLEAN, usersOk \in BOOLEAN :
               ProcessRemindersStart(t, readOk, usersOk))

\* two executions are under way, and each has sent the same reminder to the
\* same recipient with success
C23_Witness ==
  \E t, u \in Ticks, e, f \in log :
    /\ t # u
    /\ tick[t].pc \in {"send", "clear"} /\ tick[u].pc \in {"send", "clear"}
    /\ e.run = tick[t].run /\ f.run = tick[u].run
    /\ e.inst = f.inst /\ e.to = f.to
    /\ e.ok /\ f.ok

\* C24: every change of a quote's stored status, by whatever operation
\* (updateStatus, the quotes PUT endpoint, cotizacionService.update), is a
\* pair of the transition table; so a converted quote never changes status
C24_EveryStatusChangeInTable ==
  [][\A q \in Quotes :
       quotes'[q].estado # quotes[q].estado =>
         IsValidStatusTransition(quotes[q].estado, quotes'[q].estado)]_vars

\* C25: when updateStatus calls on the same quote run concurrently, the
\* stored status still moves only along the table: a call's write succeeds
\* only if its target is allowed from the status stored at that moment
C25_ConcurrentWritesFollowTable ==
  [][\A c \in Callers :
       ( /\ updating[c].pc = "write" /\ updating'[c].pc = "idle"
         /\ lastOp'.result = "ok" ) =>
         IsValidStatusTransition(quotes[updating[c].q].estado,
                                 updating[c].nuevoEstado)]_vars

\* C26: a tick clears only the reminder instance it dispatched: when
\* scheduleReminder has replaced the quote's reminder between the tick's read
\* and its clearing write, that write leaves the new reminder stored
C26_ClearLeavesNewerReminder ==
  [][\A t \in Ticks :
       (tick[t].pc = "clear" /\ tick'[t] # tick[t]) =>
         LET w == tick[t].work[tick[t].idx]
         IN quotes[w.q].inst \notin {0, w.inst} =>
              ReminderOf(quotes'[w.q]) = ReminderOf(quotes[w.q])]_vars

\* reminder instance i was scheduled on quote q, is no longer stored, and was
\* neither cleared by a tick nor replaced by a later scheduleReminder: it was
\* removed by deleteReminder
Deleted(q, i) ==
  /\ i \in 1..Len(scheduled) /\ scheduled[i].q = q
  /\ quotes[q].inst # i
  /\ \A c \in cleared : c.inst # i
  /\ \A j \in 1..Len(scheduled) : scheduled[j].over # i

\* C27: once deleteReminder(quoteId) has returned, no email is sent for the
\* deleted reminder, even by a tick that had read the quote before
C27_NoSendAfterDelete ==
  [][\A e \in log' \ log : ~Deleted(e.q, e.inst)]_vars

\* C28: when ticks do not overlap, each reminder instance is successfully
\* sent to each recipient at most once (in one execution only), whatever the
\* outcome of the clearing write that follows the sends
C28_SentOnceWhenSerial ==
  \A e, f \in log :
    (e.ok /\ f.ok /\ e.inst = f.inst /\ e.to = f.to) => e.run = f.run

\* C29: while the poller keeps running, a due email-enabled reminder is
\* eventually no longer stored as it was: a tick cleared it, unless it was
\* deleted or rescheduled first (sends and clearing writes succeed over and
\* over)
C29_DueReminderEventuallyCleared ==
  \A i \in 1..MaxInst :
    (isRunning /\ quotes[QuoteOrder[1]].inst = i /\ IsDue(quotes[QuoteOrder[1]], now))
      ~> (quotes[QuoteOrder[1]].inst # i)

\* the poller runs and a reminder whose sends all failed in an earlier
\* execution has been cleared by a later one
C29_Witness ==
  /\ isRunning
  /\ \E c \in cleared : \E r \in 1..MaxRuns : r < c.run /\ AllFailed(r, c.inst)

\* C30: a read that started before a mutation and completes after its cache
\* invalidation leaves no pre-mutation data in the cache: once the mutation
\* has returned and no read is in flight, every cached client is the stored
\* one
C30_NoStaleEntryAfterReads ==
  reading.pc = "idle" =>
    \A id \in ClientIds :
      ecache.client[id].present =>
        ecache.client[id].doc = MapDocumentToCliente(clientes[id])


====
